---- MODULE Spec2Model ----
(***************************************************************************)
(* MsigsClient (wharfkit/msigs): a typed client of a multisig-proposal     *)
(* indexing service.  The model covers the client's state (the two result  *)
(* ceilings and the initialized flag), lazy limit discovery, limit         *)
(* validation, request building for every operation, and the transport     *)
(* the requests reach.  Every operation is an async function: it runs      *)
(* synchronously up to its first await, and its continuations run as       *)
(* separate steps that interleave with the other calls on the same client. *)
(* The exported helper getPaginationInfo is modelled as an operator that   *)
(* callers apply to a page and to the pages they navigate to.              *)
(***************************************************************************)
EXTENDS Integers, Sequences, FiniteSets, TLC

\* ------------------------------------------------------------------ bounds
\* Number of operation calls made on the client in one behaviour.
MaxCalls == 2

\* Largest offset, page size and total given to getPaginationInfo.
MaxPageOffset == 7

MaxPageLimit == 3

MaxTotal == 7

\* --------------------------------------------------------- optional values
\* A TypeScript `T | undefined` is the empty tuple or a one-element tuple.
undefined == <<>>

Some(v) == <<v>>

Defined(o) == o # undefined

\* ------------------------------------------------------- program constants
\* `|| 20` / `= 20` and `|| 100` / `= 100` in initializeLimits.
DefaultProposalLimit == 20

DefaultApprovalLimit == 100

\* ------------------------------------------------------------------ inputs
\* Ceilings a caller may pass to the constructor (MsigsClientOptions).
SuppliedProposalLimits == {undefined, Some(50)}

SuppliedApprovalLimits == {undefined, Some(200)}

\* `limit` values a caller may pass; chosen to lie on both sides of the
\* ceilings the client can resolve (proposals 20, 30, 50; approvals 21, 100,
\* 200), the ceiling itself included.
Limits == {0, 20, 21, 101}

\* The part of ServiceStatus the client reads.
StatusResponse(proposals, approvals) ==
    [max_proposal_results |-> proposals, max_approval_results |-> approvals]

\* What the service may report: each field absent, zero, or a number other
\* than the client's default.
StatusResponses ==
    {StatusResponse(undefined, undefined), StatusResponse(Some(0), Some(0)),
     StatusResponse(Some(30), undefined), StatusResponse(Some(30), Some(21))}

\* Decoded payloads of the other endpoints (opaque to the client).
Payloads == {"payload"}

\* Errors the transport may fail a request with.
TransportErrors == {"Network error"}

\* Positional arguments, one representative name each.
Args ==
    [proposer : {"alice"}, proposalName : {"upgrade"}, account : {"alice"},
     approver : {"bob"}, query : {"upgrade"}]

\* --------------------------------------------------------- wire conversions
\* Name.from, Int32.from, UInt64.from wrap a value in its wire type.  The
\* numbers of the model are within the 32-bit range, where Int32.from and
\* UInt64.from keep the value.
NameFrom(s) == <<"Name", s>>

Int32From(n) == <<"Int32", n>>

UInt64From(n) == <<"UInt64", n>>

\* ------------------------------------------------------ options and params
OptionKeys ==
    {"proposer", "globalseq", "version_history", "status", "limit", "offset",
     "sort_by", "action_type", "include_approved"}

ParamKeys ==
    {"proposer", "proposal_name", "account", "approver", "query", "globalseq",
     "version_history", "status", "limit", "offset", "sort_by", "action_type",
     "include_approved"}

\* An options bag: every key is undefined (omitted) or Some(value).  An
\* omitted `options` argument behaves as the bag with every key undefined.
NoOptions == [k \in OptionKeys |-> undefined]

\* `const params: Record<string, any> = {}`: a key holds undefined while the
\* mapping has no such key.
EmptyParams == [k \in ParamKeys |-> undefined]

Put(params, key, value) == [params EXCEPT ![key] = Some(value)]

\* Keys present in a parameter mapping.
Keys(params) == {k \in ParamKeys : Defined(params[k])}

\* `if (options && options.k !== undefined) params[k] = options.k`
PutOption(params, o, key) ==
    IF Defined(o[key]) THEN Put(params, key, o[key][1]) ELSE params

\* Variant of PutOffset that tests the offset for truthiness
\* (`if (options.offset)`): an offset of 0 is left out.
PutOffsetTruthy(params, o) ==
    IF Defined(o["offset"]) /\ o["offset"][1] # 0
    THEN Put(params, "offset", Int32From(o["offset"][1]))
    ELSE params

\* Variant of PutOffset that raises a negative offset to 0.
PutOffsetClamped(params, o) ==
    IF Defined(o["offset"])
    THEN Put(params, "offset",
             Int32From(IF o["offset"][1] < 0 THEN 0 ELSE o["offset"][1]))
    ELSE params

\* `params['offset'] = Int32.from(options.offset)` when supplied.
PutOffset(params, o) ==
    IF Defined(o["offset"]) THEN Put(params, "offset", Int32From(o["offset"][1]))
    ELSE params

\* `params['limit'] = Int32.from(options.limit)` when supplied (after validation).
PutLimit(params, o) ==
    IF Defined(o["limit"]) THEN Put(params, "limit", Int32From(o["limit"][1]))
    ELSE params

\* `params['globalseq'] = UInt64.from(options.globalseq)` when supplied.
PutGlobalseq(params, o) ==
    IF Defined(o["globalseq"]) THEN Put(params, "globalseq", UInt64From(o["globalseq"][1]))
    ELSE params

ProposalParams(a) ==
    Put(Put(EmptyParams, "proposer", NameFrom(a.proposer)),
        "proposal_name", NameFrom(a.proposalName))

get_proposal_params(a, o) ==
    PutOption(PutGlobalseq(ProposalParams(a), o), o, "version_history")

get_proposal_history_params(a, o) ==
    PutOffset(PutLimit(PutOption(ProposalParams(a), o, "status"), o), o)

get_proposals_params(a, o) ==
    LET p0 == IF Defined(o["proposer"])
              THEN Put(EmptyParams, "proposer", NameFrom(o["proposer"][1]))
              ELSE EmptyParams
    IN  PutOffset(PutLimit(PutOption(p0, o, "status"), o), o)

get_active_params(a, o) ==
    PutOption(PutOffset(PutLimit(EmptyParams, o), o), o, "sort_by")

get_approvals_params(a, o) ==
    PutOffset(PutLimit(PutGlobalseq(ProposalParams(a), o), o), o)

get_activity_params(a, o) ==
    PutOption(PutOffset(PutLimit(Put(EmptyParams, "account", NameFrom(a.account)), o), o),
              o, "action_type")

get_approver_proposals_params(a, o) ==
    PutOffset(PutLimit(PutOption(PutOption(
        Put(EmptyParams, "approver", NameFrom(a.approver)),
        o, "status"), o, "include_approved"), o), o)

search_proposals_params(a, o) ==
    PutOffset(PutLimit(PutOption(Put(EmptyParams, "query", a.query), o, "status"), o), o)

get_status_params(a, o) == EmptyParams

\* ------------------------------------------------------------- operations
Getters == {"getMaxProposalLimit", "getMaxApprovalLimit"}

\* Operations whose options carry a `limit`.
LimitOps ==
    {"get_proposal_history", "get_proposals", "get_active", "get_approvals",
     "get_activity", "get_approver_proposals", "search_proposals"}

Ops == Getters \cup LimitOps \cup {"get_proposal", "get_status"}

Prefix == "/v1/proposals/"

\* Variant of Path in which get_proposal_history calls get_proposal's path.
PathShared(op) == Prefix \o (IF op = "get_proposal_history" THEN "get_proposal" ELSE op)

\* The fixed path each operation passes to client.call.
Path(op) == Prefix \o op

StatusPath == Path("get_status")

\* The parameter mapping an operation sends.
BuildParams(op, a, o) ==
    CASE op = "get_proposal" -> get_proposal_params(a, o)
      [] op = "get_proposal_history" -> get_proposal_history_params(a, o)
      [] op = "get_proposals" -> get_proposals_params(a, o)
      [] op = "get_active" -> get_active_params(a, o)
      [] op = "get_approvals" -> get_approvals_params(a, o)
      [] op = "get_activity" -> get_activity_params(a, o)
      [] op = "get_approver_proposals" -> get_approver_proposals_params(a, o)
      [] op = "search_proposals" -> search_proposals_params(a, o)
      [] OTHER -> get_status_params(a, o)

\* The options each operation declares (the Get...Options interfaces).
OptionsOf(op) ==
    CASE op = "get_proposal" -> {"globalseq", "version_history"}
      [] op = "get_proposal_history" -> {"status", "limit", "offset"}
      [] op = "get_proposals" -> {"proposer", "status", "limit", "offset"}
      [] op = "get_active" -> {"limit", "offset", "sort_by"}
      [] op = "get_approvals" -> {"globalseq", "limit", "offset"}
      [] op = "get_activity" -> {"limit", "offset", "action_type"}
      [] op = "get_approver_proposals" -> {"status", "include_approved", "limit", "offset"}
      [] op = "search_proposals" -> {"status", "limit", "offset"}
      [] OTHER -> {}

\* Limits below zero a caller may pass.
NegativeLimits == {-1}

\* `offset` values a caller may pass: negative, zero, within and beyond any
\* total.
Offsets == {-1, 0, 3, 1000}

\* Values a caller may give an option.
OptionValues(key) ==
    CASE key = "proposer" -> {"zach"}
      [] key = "globalseq" -> {0, 1001}
      [] key = "version_history" -> BOOLEAN
      [] key = "status" -> {"proposed"}
      [] key = "limit" -> Limits \cup NegativeLimits
      [] key = "offset" -> Offsets
      [] key = "sort_by" -> {"expiration"}
      [] key = "action_type" -> {"approved"}
      [] key = "include_approved" -> BOOLEAN

\* An option of op is omitted or given one of its values; any other key is
\* omitted.
Choices(op, key) ==
    IF key \in OptionsOf(op)
    THEN {undefined} \cup {Some(v) : v \in OptionValues(key)}
    ELSE {undefined}

\* Every options bag op's interface admits.
AllOptionBags(op) ==
    {[k \in OptionKeys |-> r[k]] :
        r \in [proposer : Choices(op, "proposer"), globalseq : Choices(op, "globalseq"),
               version_history : Choices(op, "version_history"),
               status : Choices(op, "status"), limit : Choices(op, "limit"),
               offset : Choices(op, "offset"), sort_by : Choices(op, "sort_by"),
               action_type : Choices(op, "action_type"),
               include_approved : Choices(op, "include_approved")]}

\* The options bags with a limit, or with nothing.
LimitOptionBags(op) ==
    IF op \in LimitOps
    THEN {NoOptions} \cup {[NoOptions EXCEPT !["limit"] = Some(l)] : l \in Limits}
    ELSE {NoOptions}

\* ------------------------------------------------------------------- state
VARIABLES
    options,            \* the MsigsClientOptions given to the constructor
    maxProposalLimit,   \* private maxProposalLimit?: number
    maxApprovalLimit,   \* private maxApprovalLimit?: number
    limitsInitialized,  \* private limitsInitialized
    calls,              \* the operation calls made on the client
    transport,          \* the requests that have reached client.call
    workload,           \* how the callers use the client in this behaviour
    pagination          \* the last getPaginationInfo call and what it returned

vars ==
    <<options, maxProposalLimit, maxApprovalLimit, limitsInitialized, calls, transport,
      workload, pagination>>

CallIds == 1..MaxCalls

\* A call that has not been made yet.
NoCall ==
    [pc |-> "idle", op |-> "none", args |-> CHOOSE a \in Args : TRUE,
     options |-> NoOptions, second |-> undefined, after |-> {}, status |-> undefined,
     discovery |-> "none", result |-> undefined]

\* A request of call c; nth numbers the requests of one call.
Request(c, path, params) ==
    [call |-> c, path |-> path, params |-> params,
     nth |-> Cardinality({r \in transport : r.call = c}) + 1]

\* Outcomes of a call.
Resolved(v) == Some([state |-> "resolved", value |-> v])

Rejected(e) == Some([state |-> "rejected", value |-> e])

\* `new Error(`Limit cannot exceed ${ceiling}`)`
LimitError(ceiling) == <<"Error", "Limit cannot exceed ", ceiling>>

\* What a getter returns: the field as it is (`this.maxProposalLimit!`).
NumberOrUndefined(o) == IF Defined(o) THEN <<"number", o[1]>> ELSE <<"undefined">>

\* constructor
Construct ==
    /\ options \in [maxProposalLimit : SuppliedProposalLimits,
                    maxApprovalLimit : SuppliedApprovalLimits]
    /\ maxProposalLimit = options.maxProposalLimit
    /\ maxApprovalLimit = options.maxApprovalLimit
    /\ limitsInitialized = FALSE
    /\ calls = [c \in CallIds |-> NoCall]
    /\ transport = {}
    /\ pagination = undefined

\* A fresh client used by MaxCalls overlapping calls that vary the limit.
Init == Construct /\ workload = "concurrent"

\* A fresh client used by one call that varies every option.
InitSingle == Construct /\ workload = "single"

\* The options bags the callers of this behaviour pass to op.
OptionBags(op) == IF workload = "single" THEN AllOptionBags(op) ELSE LimitOptionBags(op)

\* ------------------------------------------------------- limit discovery
\* Variant of OrDefault: `x ?? d`, which keeps a reported 0.
OrDefaultNullish(x, d) == IF Defined(x) THEN x[1] ELSE d

\* `x || d`: d when x is undefined or 0.
OrDefault(x, d) == IF Defined(x) /\ x[1] # 0 THEN x[1] ELSE d

\* Variant of InitializeLimits without its two early returns: get_status is
\* issued on every discovery attempt.
InitializeLimitsAlways(c, cs) ==
    /\ transport' = transport \cup {Request(c, StatusPath, EmptyParams)}
    /\ calls' = [cs EXCEPT ![c].pc = "awaitStatus"]
    /\ UNCHANGED limitsInitialized

\* Variant of InitializeLimits without the early return for ceilings that
\* are both known already.
InitializeLimitsNoSuppliedCheck(c, cs) ==
    IF limitsInitialized
    THEN /\ calls' = [cs EXCEPT ![c].pc = "resume"]
         /\ UNCHANGED <<limitsInitialized, transport>>
    ELSE /\ transport' = transport \cup {Request(c, StatusPath, EmptyParams)}
         /\ calls' = [cs EXCEPT ![c].pc = "awaitStatus"]
         /\ UNCHANGED limitsInitialized

\* Variant of InitializeLimits that returns early as soon as either ceiling
\* is known (`||` for `&&`).
InitializeLimitsEitherKnown(c, cs) ==
    IF limitsInitialized
    THEN /\ calls' = [cs EXCEPT ![c].pc = "resume"]
         /\ UNCHANGED <<limitsInitialized, transport>>
    ELSE IF maxProposalLimit # undefined \/ maxApprovalLimit # undefined
    THEN /\ limitsInitialized' = TRUE
         /\ calls' = [cs EXCEPT ![c].pc = "resume"]
         /\ UNCHANGED transport
    ELSE /\ transport' = transport \cup {Request(c, StatusPath, EmptyParams)}
         /\ calls' = [cs EXCEPT ![c].pc = "awaitStatus"]
         /\ UNCHANGED limitsInitialized

\* The synchronous part of initializeLimits, run by call c (cs: the calls,
\* c's among them): return at once when initialized or when both ceilings
\* are known, else issue get_status and suspend on it.
InitializeLimits(c, cs) ==
    IF limitsInitialized
    THEN /\ calls' = [cs EXCEPT ![c].pc = "resume"]
         /\ UNCHANGED <<limitsInitialized, transport>>
    ELSE IF maxProposalLimit # undefined /\ maxApprovalLimit # undefined
    THEN /\ limitsInitialized' = TRUE
         /\ calls' = [cs EXCEPT ![c].pc = "resume"]
         /\ UNCHANGED transport
    ELSE /\ transport' = transport \cup {Request(c, StatusPath, EmptyParams)}
         /\ calls' = [cs EXCEPT ![c].pc = "awaitStatus"]
         /\ UNCHANGED limitsInitialized

\* The ceiling a successful status response gives an unknown ceiling.
FilledProposalLimit(status) == OrDefault(status.max_proposal_results, DefaultProposalLimit)

FilledApprovalLimit(status) == OrDefault(status.max_approval_results, DefaultApprovalLimit)

\* Variant of StatusResolve that assigns both ceilings from the response
\* without testing whether they are still undefined.
StatusResolveOverwrite(c) ==
    /\ calls[c].pc = "awaitStatus"
    /\ \E status \in StatusResponses :
        /\ maxProposalLimit' = Some(FilledProposalLimit(status))
        /\ maxApprovalLimit' = Some(FilledApprovalLimit(status))
        /\ limitsInitialized' = TRUE
        /\ calls' = [calls EXCEPT ![c].pc = "resume", ![c].status = Some(status),
                                  ![c].discovery = "resolved"]
    /\ UNCHANGED <<workload, pagination, options, transport>>

\* Variant of StatusResolve that tests only the proposal ceiling for
\* undefined and takes the approval ceiling from every response.
StatusResolveMixes(c) ==
    /\ calls[c].pc = "awaitStatus"
    /\ \E status \in StatusResponses :
        /\ maxProposalLimit' =
              IF maxProposalLimit = undefined THEN Some(FilledProposalLimit(status))
              ELSE maxProposalLimit
        /\ maxApprovalLimit' = Some(FilledApprovalLimit(status))
        /\ limitsInitialized' = TRUE
        /\ calls' = [calls EXCEPT ![c].pc = "resume", ![c].status = Some(status),
                                  ![c].discovery = "resolved"]
    /\ UNCHANGED <<workload, pagination, options, transport>>

\* initializeLimits, the try branch after `await this.get_status()`.
StatusResolve(c) ==
    /\ calls[c].pc = "awaitStatus"
    /\ \E status \in StatusResponses :
        /\ maxProposalLimit' =
              IF maxProposalLimit = undefined THEN Some(FilledProposalLimit(status))
              ELSE maxProposalLimit
        /\ maxApprovalLimit' =
              IF maxApprovalLimit = undefined THEN Some(FilledApprovalLimit(status))
              ELSE maxApprovalLimit
        /\ limitsInitialized' = TRUE
        /\ calls' = [calls EXCEPT ![c].pc = "resume", ![c].status = Some(status),
                                  ![c].discovery = "resolved"]
    /\ UNCHANGED <<workload, pagination, options, transport>>

\* Variant of StatusReject that assigns the defaults without testing whether
\* the ceilings are still undefined.
StatusRejectOverwrite(c) ==
    /\ calls[c].pc = "awaitStatus"
    /\ \E error \in TransportErrors :
        /\ maxProposalLimit' = Some(DefaultProposalLimit)
        /\ maxApprovalLimit' = Some(DefaultApprovalLimit)
        /\ limitsInitialized' = TRUE
        /\ calls' = [calls EXCEPT ![c].pc = "resume", ![c].discovery = "rejected"]
    /\ UNCHANGED <<workload, pagination, options, transport>>

\* Variant of StatusReject that fills the proposal ceiling only.
StatusRejectProposalOnly(c) ==
    /\ calls[c].pc = "awaitStatus"
    /\ \E error \in TransportErrors :
        /\ maxProposalLimit' =
              IF maxProposalLimit = undefined THEN Some(DefaultProposalLimit)
              ELSE maxProposalLimit
        /\ limitsInitialized' = TRUE
        /\ calls' = [calls EXCEPT ![c].pc = "resume", ![c].discovery = "rejected"]
    /\ UNCHANGED <<workload, pagination, options, maxApprovalLimit, transport>>

\* Variant of StatusReject without the try/catch: the status call's error
\* ends the operation that ran the discovery.
StatusRejectPropagates(c) ==
    /\ calls[c].pc = "awaitStatus"
    /\ \E error \in TransportErrors :
          calls' = [calls EXCEPT ![c].pc = "done", ![c].discovery = "rejected",
                                 ![c].result = Rejected(<<"Error", error>>)]
    /\ UNCHANGED <<workload, pagination, options, maxProposalLimit, maxApprovalLimit,
                   limitsInitialized, transport>>

\* Variant of StatusReject with an empty catch block: the error is swallowed
\* and the client is left as it was.
StatusRejectSwallowOnly(c) ==
    /\ calls[c].pc = "awaitStatus"
    /\ \E error \in TransportErrors :
          calls' = [calls EXCEPT ![c].pc = "resume", ![c].discovery = "rejected"]
    /\ UNCHANGED <<workload, pagination, options, maxProposalLimit, maxApprovalLimit,
                   limitsInitialized, transport>>

\* initializeLimits, the catch branch: the status call failed.
StatusReject(c) ==
    /\ calls[c].pc = "awaitStatus"
    /\ \E error \in TransportErrors :
        /\ maxProposalLimit' =
              IF maxProposalLimit = undefined THEN Some(DefaultProposalLimit)
              ELSE maxProposalLimit
        /\ maxApprovalLimit' =
              IF maxApprovalLimit = undefined THEN Some(DefaultApprovalLimit)
              ELSE maxApprovalLimit
        /\ limitsInitialized' = TRUE
        /\ calls' = [calls EXCEPT ![c].pc = "resume", ![c].discovery = "rejected"]
    /\ UNCHANGED <<workload, pagination, options, transport>>

\* ------------------------------------------------------------ making calls
\* Variant of Ceiling that uses the proposal ceiling for every operation.
CeilingProposalOnly(op) == maxProposalLimit

\* Variant of Ceiling that uses the approval ceiling for get_proposal_history
\* as well.
CeilingHistoryApproval(op) ==
    IF op \in {"get_approvals", "get_proposal_history"} THEN maxApprovalLimit
    ELSE maxProposalLimit

\* The ceiling an operation compares its limit with.
Ceiling(op) == IF op = "get_approvals" THEN maxApprovalLimit ELSE maxProposalLimit

\* Variant of Exceeds with `>=` for `>`.
ExceedsOrEqual(limit, ceiling) == Defined(ceiling) /\ limit >= ceiling[1]

\* Variant of Exceeds that also refuses a limit that is not positive.
ExceedsOrNotPositive(limit, ceiling) ==
    Defined(ceiling) /\ (limit > ceiling[1] \/ limit <= 0)

\* `options.limit > this.maxXLimit!` (false against undefined).
Exceeds(limit, ceiling) == Defined(ceiling) /\ limit > ceiling[1]

\* `this.client.call({path, params})`: the request reaches the transport and
\* the call suspends on its response.
Send(c, call) ==
    /\ transport' = transport \cup
          {Request(c, Path(call.op), BuildParams(call.op, call.args, call.options))}
    /\ calls' = [calls EXCEPT ![c] = [call EXCEPT !.pc = "awaitCall"]]

\* Call c starts operation op with arguments a and options o, and runs to its
\* first await: `await this.initializeLimits()` for a getter or a supplied
\* limit, else the operation's own request.  Calls are numbered in the order
\* they are made.
Invoke(c, op, a, o) ==
    /\ calls[c].pc = "idle"
    /\ IF c = 1 THEN TRUE ELSE workload = "concurrent" /\ calls[c - 1].pc # "idle"
    /\ LET call == [NoCall EXCEPT !.op = op, !.args = a, !.options = o,
                                  !.after = {d \in CallIds : calls[d].pc = "done"}]
       IN  IF op \in Getters \/ Defined(o["limit"])
           THEN InitializeLimits(c, [calls EXCEPT ![c] = call])
           ELSE /\ Send(c, call)
                /\ UNCHANGED limitsInitialized
    /\ UNCHANGED <<workload, pagination, options, maxProposalLimit, maxApprovalLimit>>

getMaxProposalLimit(c) ==
    /\ calls[c].pc = "idle"
    /\ \E a \in Args : Invoke(c, "getMaxProposalLimit", a, NoOptions)

getMaxApprovalLimit(c) ==
    /\ calls[c].pc = "idle"
    /\ \E a \in Args : Invoke(c, "getMaxApprovalLimit", a, NoOptions)

get_proposal(c) ==
    /\ calls[c].pc = "idle"
    /\ \E a \in Args, o \in OptionBags("get_proposal") : Invoke(c, "get_proposal", a, o)

get_proposal_history(c) ==
    /\ calls[c].pc = "idle"
    /\ \E a \in Args, o \in OptionBags("get_proposal_history") :
        Invoke(c, "get_proposal_history", a, o)

get_proposals(c) ==
    /\ calls[c].pc = "idle"
    /\ \E a \in Args, o \in OptionBags("get_proposals") : Invoke(c, "get_proposals", a, o)

get_active(c) ==
    /\ calls[c].pc = "idle"
    /\ \E a \in Args, o \in OptionBags("get_active") : Invoke(c, "get_active", a, o)

get_approvals(c) ==
    /\ calls[c].pc = "idle"
    /\ \E a \in Args, o \in OptionBags("get_approvals") : Invoke(c, "get_approvals", a, o)

get_activity(c) ==
    /\ calls[c].pc = "idle"
    /\ \E a \in Args, o \in OptionBags("get_activity") : Invoke(c, "get_activity", a, o)

get_approver_proposals(c) ==
    /\ calls[c].pc = "idle"
    /\ \E a \in Args, o \in OptionBags("get_approver_proposals") :
        Invoke(c, "get_approver_proposals", a, o)

search_proposals(c) ==
    /\ calls[c].pc = "idle"
    /\ \E a \in Args, o \in OptionBags("search_proposals") :
        Invoke(c, "search_proposals", a, o)

get_status(c) ==
    /\ calls[c].pc = "idle"
    /\ \E a \in Args : Invoke(c, "get_status", a, NoOptions)

\* Variant of Resume that sends the operation's request before it validates
\* the limit.
ResumeSendFirst(c) ==
    /\ calls[c].pc = "resume"
    /\ LET call == [calls[c] EXCEPT !.status = undefined]
           limit == call.options["limit"][1]
       IN  IF call.op = "getMaxProposalLimit"
           THEN /\ calls' = [calls EXCEPT ![c] = [call EXCEPT !.pc = "done",
                                !.result = Resolved(NumberOrUndefined(maxProposalLimit))]]
                /\ UNCHANGED transport
           ELSE IF call.op = "getMaxApprovalLimit"
           THEN /\ calls' = [calls EXCEPT ![c] = [call EXCEPT !.pc = "done",
                                !.result = Resolved(NumberOrUndefined(maxApprovalLimit))]]
                /\ UNCHANGED transport
           ELSE IF Exceeds(limit, Ceiling(call.op))
           THEN /\ transport' = transport \cup
                      {Request(c, Path(call.op), BuildParams(call.op, call.args, call.options))}
                /\ calls' = [calls EXCEPT ![c] = [call EXCEPT !.pc = "done",
                                !.result = Rejected(LimitError(Ceiling(call.op)[1]))]]
           ELSE Send(c, call)
    /\ UNCHANGED <<workload, pagination, options, maxProposalLimit, maxApprovalLimit, limitsInitialized>>

\* The continuation after `await this.initializeLimits()`: a getter returns
\* its field; an operation validates its limit, then throws or sends.
Resume(c) ==
    /\ calls[c].pc = "resume"
    /\ LET call == [calls[c] EXCEPT !.status = undefined]
           limit == call.options["limit"][1]
       IN  IF call.op = "getMaxProposalLimit"
           THEN /\ calls' = [calls EXCEPT ![c] = [call EXCEPT !.pc = "done",
                                !.result = Resolved(NumberOrUndefined(maxProposalLimit))]]
                /\ UNCHANGED transport
           ELSE IF call.op = "getMaxApprovalLimit"
           THEN /\ calls' = [calls EXCEPT ![c] = [call EXCEPT !.pc = "done",
                                !.result = Resolved(NumberOrUndefined(maxApprovalLimit))]]
                /\ UNCHANGED transport
           ELSE IF Exceeds(limit, Ceiling(call.op))
           THEN /\ calls' = [calls EXCEPT ![c] = [call EXCEPT !.pc = "done",
                                !.result = Rejected(LimitError(Ceiling(call.op)[1]))]]
                /\ UNCHANGED transport
           ELSE Send(c, call)
    /\ UNCHANGED <<workload, pagination, options, maxProposalLimit, maxApprovalLimit, limitsInitialized>>

\* Variant of TransportResolve in which the response of a direct get_status()
\* fills the unknown ceilings as a discovery would.
TransportResolvePopulates(c) ==
    /\ calls[c].pc = "awaitCall"
    /\ IF calls[c].op = "get_status"
       THEN \E s \in StatusResponses :
              /\ calls' = [calls EXCEPT ![c].pc = "done",
                                        ![c].result = Resolved(<<"status", s>>)]
              /\ maxProposalLimit' =
                    IF maxProposalLimit = undefined THEN Some(FilledProposalLimit(s))
                    ELSE maxProposalLimit
              /\ maxApprovalLimit' =
                    IF maxApprovalLimit = undefined THEN Some(FilledApprovalLimit(s))
                    ELSE maxApprovalLimit
              /\ limitsInitialized' = TRUE
       ELSE \E p \in Payloads :
              /\ calls' = [calls EXCEPT ![c].pc = "done",
                                        ![c].result = Resolved(<<"response", p>>)]
              /\ UNCHANGED <<maxProposalLimit, maxApprovalLimit, limitsInitialized>>
    /\ UNCHANGED <<workload, pagination, options, transport>>

\* The transport answers the operation's own request; the decoded response
\* is returned as it is.
TransportResolve(c) ==
    /\ calls[c].pc = "awaitCall"
    /\ \E body \in (IF calls[c].op = "get_status"
                     THEN {<<"status", s>> : s \in StatusResponses}
                     ELSE {<<"response", p>> : p \in Payloads}) :
          calls' = [calls EXCEPT ![c].pc = "done", ![c].result = Resolved(body)]
    /\ UNCHANGED <<workload, pagination, options, maxProposalLimit, maxApprovalLimit, limitsInitialized, transport>>

\* Variant of TransportReject that issues the failed request once more
\* before it gives up.
TransportRejectRetry(c) ==
    /\ calls[c].pc = "awaitCall"
    /\ \E error \in TransportErrors :
          IF Cardinality({r \in transport : r.call = c /\ r.path = Path(calls[c].op)}) < 2
          THEN /\ transport' = transport \cup
                     {Request(c, Path(calls[c].op),
                              BuildParams(calls[c].op, calls[c].args, calls[c].options))}
               /\ UNCHANGED calls
          ELSE /\ calls' = [calls EXCEPT ![c].pc = "done",
                                         ![c].result = Rejected(<<"Error", error>>)]
               /\ UNCHANGED transport
    /\ UNCHANGED <<workload, pagination, options, maxProposalLimit, maxApprovalLimit,
                   limitsInitialized>>

\* The transport fails the operation's own request; the error reaches the caller.
TransportReject(c) ==
    /\ calls[c].pc = "awaitCall"
    /\ \E error \in TransportErrors :
          calls' = [calls EXCEPT ![c].pc = "done",
                                 ![c].result = Rejected(<<"Error", error>>)]
    /\ UNCHANGED <<workload, pagination, options, maxProposalLimit, maxApprovalLimit, limitsInitialized, transport>>

Next ==
    \E c \in CallIds :
        \/ getMaxProposalLimit(c)
        \/ getMaxApprovalLimit(c)
        \/ get_proposal(c)
        \/ get_proposal_history(c)
        \/ get_proposals(c)
        \/ get_active(c)
        \/ get_approvals(c)
        \/ get_activity(c)
        \/ get_approver_proposals(c)
        \/ search_proposals(c)
        \/ get_status(c)
        \/ StatusResolve(c)
        \/ StatusReject(c)
        \/ Resume(c)
        \/ TransportResolve(c)
        \/ TransportReject(c)

Spec == Init /\ [][Next]_vars

SpecSingle == InitSingle /\ [][Next]_vars

\* ------------------------------------- calls as the README and tests make them
\* `new TypeError('msigs.debug_proposal is not a function')`
NotAFunction(member) == <<"TypeError", member, " is not a function">>

\* `msigs.debug_proposal(proposer, proposalName, options?)` as the README
\* documents it and the tests call it.  MsigsClient declares no such member:
\* the member is undefined, calling it throws before any code of the client
\* runs, and the awaiting caller sees the TypeError.
debug_proposal(c) ==
    /\ calls[c].pc = "idle"
    /\ IF c = 1 THEN TRUE ELSE workload = "concurrent" /\ calls[c - 1].pc # "idle"
    /\ \E a \in Args, g \in {undefined} \cup {Some(v) : v \in OptionValues("globalseq")} :
          calls' = [calls EXCEPT ![c] =
                      [NoCall EXCEPT !.pc = "done", !.op = "debug_proposal", !.args = a,
                                     !.options = [NoOptions EXCEPT !["globalseq"] = g],
                                     !.after = {d \in CallIds : calls[d].pc = "done"},
                                     !.result = Rejected(NotAFunction("debug_proposal"))]]
    /\ UNCHANGED <<workload, pagination, options, maxProposalLimit, maxApprovalLimit,
                   limitsInitialized, transport>>

\* The options the README lists for `get_proposals(proposer, options?)`.
PositionalOptionBags == {o \in AllOptionBags("get_proposals") : o["proposer"] = undefined}

\* `options.k` for each option key when `options` is bound to a string:
\* a string has none of these properties.
StringAsOptions(str) == [k \in OptionKeys |-> undefined]

\* `msigs.get_proposals(proposer, options)` as the README documents it and
\* the tests call it, run by get_proposals(options?) of the source: the
\* proposer string is bound to `options`, the second argument to nothing.
get_proposals_positional(c) ==
    /\ calls[c].pc = "idle"
    /\ IF c = 1 THEN TRUE ELSE workload = "concurrent" /\ calls[c - 1].pc # "idle"
    /\ \E a \in Args, second \in PositionalOptionBags :
          LET call == [NoCall EXCEPT !.op = "get_proposals", !.args = a,
                                     !.options = StringAsOptions(a.proposer),
                                     !.second = Some(second),
                                     !.after = {d \in CallIds : calls[d].pc = "done"}]
          IN  IF Defined(call.options["limit"])
              THEN InitializeLimits(c, [calls EXCEPT ![c] = call])
              ELSE /\ Send(c, call)
                   /\ UNCHANGED limitsInitialized
    /\ UNCHANGED <<workload, pagination, options, maxProposalLimit, maxApprovalLimit>>

NextDocumented ==
    \/ Next
    \/ \E c \in CallIds :
          \/ debug_proposal(c)
          \/ get_proposals_positional(c)

\* One call on a fresh client, made as the source declares the operations or
\* as the README and the tests call them.
SpecDocumented == InitSingle /\ [][NextDocumented]_vars

\* ------------------------------------------------------------- pagination
\* Math.floor(a / b) and Math.ceil(a / b) for integers a and b > 0 (\div
\* rounds down).
Floor(a, b) == a \div b

Ceil(a, b) == -((-a) \div b)

\* Math.max(a, b)
Max(a, b) == IF a >= b THEN a ELSE b

\* Variant of CurrentPage that numbers the pages from 0.
CurrentPageFromZero(offset, limit) == Floor(offset, limit)

\* `const currentPage = Math.floor(offset / limit) + 1`
CurrentPage(offset, limit) == Floor(offset, limit) + 1

\* Variant of TotalPages that rounds down.
TotalPagesFloor(total, limit) == Floor(total, limit)

\* `const totalPages = Math.ceil(total / limit)`
TotalPages(total, limit) == Ceil(total, limit)

\* Variant of HasMore that works it out from the counts.
HasMoreRecomputed(offset, limit, total, more) == offset + limit < total

\* `const hasMore = more`
HasMore(offset, limit, total, more) == more

\* `const hasPrevious = offset > 0`
HasPrevious(offset) == offset > 0

\* Variant of NextOffset that goes to the start of the page after the current
\* one (`currentPage * limit`).
NextOffsetAligned(offset, limit, hasMore) ==
    IF hasMore THEN Some((Floor(offset, limit) + 1) * limit) ELSE undefined

\* `nextOffset: hasMore ? offset + limit : undefined`
NextOffset(offset, limit, hasMore) == IF hasMore THEN Some(offset + limit) ELSE undefined

\* Variant of PreviousOffset without Math.max.
PreviousOffsetUnclamped(offset, limit, hasPrevious) ==
    IF hasPrevious THEN Some(offset - limit) ELSE undefined

\* `previousOffset: hasPrevious ? Math.max(0, offset - limit) : undefined`
PreviousOffset(offset, limit, hasPrevious) ==
    IF hasPrevious THEN Some(Max(0, offset - limit)) ELSE undefined

getPaginationInfo(offset, limit, total, more) ==
    [currentPage |-> CurrentPage(offset, limit),
     pageSize |-> limit,
     totalResults |-> total,
     totalPages |-> TotalPages(total, limit),
     hasMore |-> HasMore(offset, limit, total, more),
     hasPrevious |-> HasPrevious(offset),
     nextOffset |-> NextOffset(offset, limit, HasMore(offset, limit, total, more)),
     previousOffset |-> PreviousOffset(offset, limit, HasPrevious(offset))]

\* The arguments a caller gives getPaginationInfo: an offset (also before
\* the first result), a positive page size, a result count and the
\* service's `more` flag.
PageOffsets == (-2)..MaxPageOffset

PageLimits == 1..MaxPageLimit

Totals == 0..MaxTotal

\* One application of getPaginationInfo: its arguments, what it returned,
\* and the page the caller came from when it navigated here.
Page(offset, limit, total, more, from) ==
    [offset |-> offset, limit |-> limit, total |-> total, more |-> more,
     info |-> getPaginationInfo(offset, limit, total, more), from |-> from]

\* A caller applies getPaginationInfo; the function reads and writes nothing
\* of the client.
Paginate ==
    /\ \E offset \in PageOffsets, limit \in PageLimits, total \in Totals, more \in BOOLEAN :
          pagination' = Some(Page(offset, limit, total, more, undefined))
    /\ UNCHANGED <<workload, options, maxProposalLimit, maxApprovalLimit, limitsInitialized,
                   calls, transport>>

\* The caller fetches the page at the nextOffset of the page it has (offsets
\* up to MaxPageOffset) and applies getPaginationInfo to it, with the same
\* page size and total and the `more` of the new page.
NextPage ==
    /\ pagination # undefined
    /\ pagination[1].offset <= MaxPageOffset
    /\ pagination[1].info.nextOffset # undefined
    /\ \E more \in BOOLEAN :
          pagination' = Some(Page(pagination[1].info.nextOffset[1], pagination[1].limit,
                                  pagination[1].total, more,
                                  Some([to |-> "next", offset |-> pagination[1].offset,
                                        info |-> pagination[1].info])))
    /\ UNCHANGED <<workload, options, maxProposalLimit, maxApprovalLimit, limitsInitialized,
                   calls, transport>>

\* The caller goes back to the page at the previousOffset of the page it has.
PreviousPage ==
    /\ pagination # undefined
    /\ pagination[1].info.previousOffset # undefined
    /\ \E more \in BOOLEAN :
          pagination' = Some(Page(pagination[1].info.previousOffset[1], pagination[1].limit,
                                  pagination[1].total, more,
                                  Some([to |-> "previous", offset |-> pagination[1].offset,
                                        info |-> pagination[1].info])))
    /\ UNCHANGED <<workload, options, maxProposalLimit, maxApprovalLimit, limitsInitialized,
                   calls, transport>>

NextPagination == Paginate \/ NextPage \/ PreviousPage

SpecPagination == InitSingle /\ [][NextPagination]_vars

\* ================================================================ properties
\* Vocabulary of the properties below.
Done(c) == calls[c].pc = "done"

\* The call has passed or failed its limit validation.
Validated(c) == calls[c].pc \in {"awaitCall", "done"}

HasLimit(c) == calls[c].op \in LimitOps /\ calls[c].options["limit"] # undefined

LimitOf(c) == calls[c].options["limit"][1]

\* The call runs initializeLimits: a getter, or an operation given a limit.
UsesLimits(c) == calls[c].op \in Getters \/ HasLimit(c)

RequestsOf(c) == {r \in transport : r.call = c}

\* Requests call c made to its operation's own endpoint.
OwnRequests(c) == {r \in RequestsOf(c) : r.path = Prefix \o calls[c].op}

\* get_status requests made by limit discovery (not by a direct get_status()).
DiscoveryRequests ==
    {r \in transport : r.path = "/v1/proposals/get_status" /\ calls[r.call].op # "get_status"}

DiscoveryRequestsOf(c) == {r \in DiscoveryRequests : r.call = c}

\* The call was rejected by limit validation.
LimitRejected(c) ==
    /\ Done(c)
    /\ calls[c].result[1].state = "rejected"
    /\ calls[c].result[1].value[2] = "Limit cannot exceed "

\* The call was rejected with the message `Limit cannot exceed n`.
LimitRejectedWith(c, n) ==
    /\ Done(c)
    /\ calls[c].result = <<[state |-> "rejected", value |-> <<"Error", "Limit cannot exceed ", n>>]>>

\* The call's own request went out carrying its limit as an Int32.
LimitSent(c) ==
    /\ Cardinality(OwnRequests(c)) = 1
    /\ \A r \in OwnRequests(c) : r.params["limit"] = <<(<<"Int32", LimitOf(c)>>)>>

ProposalCeilingOps ==
    {"get_proposal_history", "get_proposals", "get_active", "get_activity",
     "get_approver_proposals", "search_proposals"}

BothSupplied == options.maxProposalLimit # undefined /\ options.maxApprovalLimit # undefined

NoneSupplied == options.maxProposalLimit = undefined /\ options.maxApprovalLimit = undefined

\* A getter call that has returned n.
Returned(c, op, n) ==
    /\ calls[c].op = op
    /\ Done(c)
    /\ calls[c].result = <<[state |-> "resolved", value |-> <<"number", n>>]>>

\* C1: for each of the six operations validated against the proposal ceiling,
\* a call whose limit is greater than the resolved proposal ceiling L is rejected
\* with `Limit cannot exceed L` and never calls its own endpoint; a call whose
\* limit is at most L (L included) is not rejected by validation and its
\* limit is sent.  Before validation the endpoint has not been called either.
C1_ProposalLimitValidation ==
    \A c \in CallIds :
        (calls[c].op \in ProposalCeilingOps /\ HasLimit(c)) =>
            IF Validated(c)
            THEN /\ maxProposalLimit # undefined
                 /\ IF LimitOf(c) > maxProposalLimit[1]
                    THEN /\ LimitRejectedWith(c, maxProposalLimit[1])
                         /\ OwnRequests(c) = {}
                    ELSE /\ ~LimitRejected(c)
                         /\ LimitSent(c)
            ELSE OwnRequests(c) = {}

\* C1 witness: one call rejected for a limit above the ceiling (21 against 20)
\* and another accepted with a limit equal to the ceiling.
C1_Witness ==
    \E c, d \in CallIds :
        /\ calls[c].op \in ProposalCeilingOps /\ calls[d].op \in ProposalCeilingOps
        /\ HasLimit(c) /\ HasLimit(d)
        /\ maxProposalLimit = <<20>>
        /\ LimitOf(c) = 21 /\ LimitRejectedWith(c, 20) /\ OwnRequests(c) = {}
        /\ LimitOf(d) = 20 /\ Done(d) /\ calls[d].result[1].state = "resolved" /\ LimitSent(d)

\* C2 as stated: a call rejected by limit validation has sent no request of
\* any path (get_status included) by the time it rejects, whatever state the
\* client was in when the call started.
C2_NoRequestBeforeRejection ==
    \A c \in CallIds : LimitRejected(c) => RequestsOf(c) = {}

\* C2 as amended: a call rejected by limit validation has sent nothing to its
\* own endpoint or any other path; the one request it may have sent is the
\* get_status call of limit discovery, and it sent none when the client was
\* constructed with both ceilings or had been initialized by an earlier call.
C2_OnlyDiscoveryBeforeRejection ==
    \A c \in CallIds :
        LimitRejected(c) =>
            /\ RequestsOf(c) \subseteq
                  {[call |-> c, path |-> "/v1/proposals/get_status", params |-> EmptyParams,
                    nth |-> 1]}
            /\ BothSupplied => RequestsOf(c) = {}
            /\ (\E d \in calls[c].after : UsesLimits(d)) => RequestsOf(c) = {}

\* C2 witness: one call rejected after its discovery's get_status call, and a
\* later call rejected without any request.
C2_Witness ==
    \E c, d \in CallIds :
        /\ LimitRejected(c) /\ Cardinality(RequestsOf(c)) = 1
        /\ LimitRejected(d) /\ c \in calls[d].after /\ RequestsOf(d) = {}

\* C3 as stated: over any interleaving of operations, limit discovery issues
\* at most one get_status call.
C3_AtMostOneStatusCall == Cardinality(DiscoveryRequests) <= 1

\* C3 as amended: discovery issues a get_status call only while the client is
\* not initialized, one per discovering call, and a second one only while an
\* earlier discovery's status call is still in flight; once the client is
\* initialized it stays so and no discovery attempt issues a request.
C3_DiscoveryOnlyWhileUninitialized ==
    [][/\ DiscoveryRequests' # DiscoveryRequests =>
            /\ ~limitsInitialized
            /\ Cardinality(DiscoveryRequests') = Cardinality(DiscoveryRequests) + 1
            /\ DiscoveryRequests = {} \/ \E d \in CallIds : calls[d].pc = "awaitStatus"
       /\ limitsInitialized => limitsInitialized' /\ DiscoveryRequests' = DiscoveryRequests
      ]_vars

\* C3 witness: two calls that both run discovery, the second made after the
\* first returned, with one get_status call between them.
C3_Witness ==
    \E c, d \in CallIds :
        /\ UsesLimits(c) /\ UsesLimits(d) /\ Done(c) /\ Done(d)
        /\ c \in calls[d].after
        /\ limitsInitialized
        /\ Cardinality(DiscoveryRequests) = 1

\* C4: a ceiling that has a value never changes again, and the initialized
\* flag never goes back to false.
C4_CeilingsFixedOnceSet ==
    [][/\ maxProposalLimit # undefined => maxProposalLimit' = maxProposalLimit
       /\ maxApprovalLimit # undefined => maxApprovalLimit' = maxApprovalLimit
       /\ limitsInitialized => limitsInitialized'
      ]_vars

\* C4 witness: two discoveries completed on one client, a successful status
\* response and a failed status call, and the ceilings are those of the response.
C4_Witness ==
    \E c, d \in CallIds :
        /\ calls[c].discovery = "resolved" /\ calls[d].discovery = "rejected"
        /\ maxProposalLimit = <<30>> /\ maxApprovalLimit = <<21>>
        /\ limitsInitialized

\* C5: on a client constructed without limits whose discovery status calls
\* fail (none has succeeded), getMaxProposalLimit() resolves to 20 and
\* getMaxApprovalLimit() resolves to 100; a getter never rejects.
C5_DefaultsWhenStatusFails ==
    \A c \in CallIds :
        (calls[c].op \in Getters /\ Done(c)) =>
            /\ calls[c].result[1].state = "resolved"
            /\ (/\ NoneSupplied
                /\ \E d \in CallIds : calls[d].discovery = "rejected"
                /\ \A d \in CallIds : calls[d].discovery # "resolved") =>
                   \/ Returned(c, "getMaxProposalLimit", 20)
                   \/ Returned(c, "getMaxApprovalLimit", 100)

\* C5 witness: both getters have returned the defaults after a failed status call.
C5_Witness ==
    \E c, d \in CallIds :
        /\ NoneSupplied
        /\ calls[c].discovery = "rejected" /\ calls[d].discovery = "none"
        /\ Returned(c, "getMaxProposalLimit", 20)
        /\ Returned(d, "getMaxApprovalLimit", 100)

\* A step in which call c's discovery receives a successful status response.
StatusArrives(c) == calls[c].pc = "awaitStatus" /\ calls'[c].status # undefined

\* C6 as stated: a successful status response sets each still-unknown ceiling
\* to the reported field, or to the default (20 / 100) when the field is absent.
C6_FilledFromResponse ==
    [][\A c \in CallIds :
          StatusArrives(c) =>
              LET status == calls'[c].status[1]
              IN  /\ maxProposalLimit = undefined =>
                        maxProposalLimit' =
                            IF status.max_proposal_results # undefined
                            THEN status.max_proposal_results ELSE <<20>>
                  /\ maxApprovalLimit = undefined =>
                        maxApprovalLimit' =
                            IF status.max_approval_results # undefined
                            THEN status.max_approval_results ELSE <<100>>
      ]_vars

\* C6 as amended: a successful status response sets each still-unknown
\* ceiling to the reported field, or to the default (20 / 100) when the field
\* is absent or 0; the getters return exactly the ceilings so resolved.
C6_FilledFromResponseOrDefault ==
    [][/\ \A c \in CallIds :
            StatusArrives(c) =>
                LET status == calls'[c].status[1]
                    reported(field) == field # undefined /\ field # <<0>>
                IN  /\ maxProposalLimit = undefined =>
                          maxProposalLimit' =
                              IF reported(status.max_proposal_results)
                              THEN status.max_proposal_results ELSE <<20>>
                    /\ maxApprovalLimit = undefined =>
                          maxApprovalLimit' =
                              IF reported(status.max_approval_results)
                              THEN status.max_approval_results ELSE <<100>>
       /\ \A c \in CallIds :
            /\ (calls'[c].op = "getMaxProposalLimit" /\ calls'[c].pc = "done") =>
                  /\ maxProposalLimit' # undefined
                  /\ calls'[c].result =
                        <<[state |-> "resolved", value |-> <<"number", maxProposalLimit'[1]>>]>>
            /\ (calls'[c].op = "getMaxApprovalLimit" /\ calls'[c].pc = "done") =>
                  /\ maxApprovalLimit' # undefined
                  /\ calls'[c].result =
                        <<[state |-> "resolved", value |-> <<"number", maxApprovalLimit'[1]>>]>>
      ]_vars

\* C6 witness: discovery got a response reporting 30 proposals and no
\* approval field; the getters have returned 30 and 100.
C6_Witness ==
    \E c, d \in CallIds :
        /\ NoneSupplied
        /\ calls[c].discovery = "resolved"
        /\ Returned(c, "getMaxProposalLimit", 30)
        /\ Returned(d, "getMaxApprovalLimit", 100)

\* C7: of two getMaxProposalLimit() calls made in sequence (the second after
\* the first resolved), the second issues no status call, the first at most
\* one, and the second returns the value the first returned.
C7_GetterTwiceInSequence ==
    \A a, b \in CallIds :
        (/\ calls[a].op = "getMaxProposalLimit" /\ calls[b].op = "getMaxProposalLimit"
         /\ a \in calls[b].after) =>
            /\ Cardinality(DiscoveryRequestsOf(a) \cup DiscoveryRequestsOf(b)) <= 1
            /\ DiscoveryRequestsOf(b) = {}
            /\ Done(b) => calls[b].result = calls[a].result

\* C7 witness: the second of two sequential getMaxProposalLimit() calls has
\* returned, and the first had issued a status call.
C7_Witness ==
    \E a, b \in CallIds :
        /\ calls[a].op = "getMaxProposalLimit" /\ calls[b].op = "getMaxProposalLimit"
        /\ a \in calls[b].after /\ Done(b)
        /\ Cardinality(DiscoveryRequestsOf(a)) = 1
        /\ calls[b].result = calls[a].result

\* C8: a client constructed with both ceilings never issues a discovery
\* status call; its getters return exactly the supplied values and limits
\* are validated against them.
C8_SuppliedLimitsSkipDiscovery ==
    BothSupplied =>
        /\ DiscoveryRequests = {}
        /\ \A c \in CallIds :
            /\ (calls[c].op = "getMaxProposalLimit" /\ Done(c)) =>
                  Returned(c, "getMaxProposalLimit", options.maxProposalLimit[1])
            /\ (calls[c].op = "getMaxApprovalLimit" /\ Done(c)) =>
                  Returned(c, "getMaxApprovalLimit", options.maxApprovalLimit[1])
            /\ (HasLimit(c) /\ Validated(c)) =>
                  LET supplied == IF calls[c].op = "get_approvals"
                                  THEN options.maxApprovalLimit[1]
                                  ELSE options.maxProposalLimit[1]
                  IN  IF LimitOf(c) > supplied
                      THEN LimitRejectedWith(c, supplied)
                      ELSE ~LimitRejected(c) /\ LimitSent(c)

\* C8 witness: on a client constructed with 50 / 200, a getter has returned 50
\* and a limit of 101 has been rejected against 50, with nothing sent.
C8_Witness ==
    \E c, d \in CallIds :
        /\ options = [maxProposalLimit |-> <<50>>, maxApprovalLimit |-> <<200>>]
        /\ Returned(c, "getMaxProposalLimit", 50)
        /\ HasLimit(d) /\ LimitOf(d) = 101 /\ LimitRejectedWith(d, 50)
        /\ transport = {}

\* C9: a ceiling supplied at construction is the resolved value of that
\* ceiling in every state, whatever the status response reports and also
\* when the status call fails; its getter returns it.
C9_SuppliedCeilingWins ==
    /\ options.maxProposalLimit # undefined =>
          /\ maxProposalLimit = options.maxProposalLimit
          /\ \A c \in CallIds :
                (calls[c].op = "getMaxProposalLimit" /\ Done(c)) =>
                    Returned(c, "getMaxProposalLimit", options.maxProposalLimit[1])
    /\ options.maxApprovalLimit # undefined =>
          /\ maxApprovalLimit = options.maxApprovalLimit
          /\ \A c \in CallIds :
                (calls[c].op = "getMaxApprovalLimit" /\ Done(c)) =>
                    Returned(c, "getMaxApprovalLimit", options.maxApprovalLimit[1])

\* C9 witness: constructed with maxProposalLimit 50 only; the status response
\* reported 30 / 21; getMaxProposalLimit() returned 50 and discovery filled
\* the approval ceiling with 21.
C9_Witness ==
    \E c \in CallIds :
        /\ options = [maxProposalLimit |-> <<50>>, maxApprovalLimit |-> undefined]
        /\ calls[c].discovery = "resolved"
        /\ Returned(c, "getMaxProposalLimit", 50)
        /\ maxApprovalLimit = <<21>>

\* C10: get_approvals validates its limit against the approval ceiling A: it
\* is rejected with `Limit cannot exceed A` exactly when its limit is greater
\* than A; a limit above the proposal ceiling and at most A is accepted by
\* get_approvals and rejected by every other limit-taking operation.
C10_ApprovalsUseApprovalCeiling ==
    \A c \in CallIds :
        (HasLimit(c) /\ Validated(c)) =>
            /\ maxProposalLimit # undefined /\ maxApprovalLimit # undefined
            /\ calls[c].op = "get_approvals" =>
                  IF LimitOf(c) > maxApprovalLimit[1]
                  THEN LimitRejectedWith(c, maxApprovalLimit[1]) /\ OwnRequests(c) = {}
                  ELSE ~LimitRejected(c) /\ LimitSent(c)
            /\ (maxProposalLimit[1] < LimitOf(c) /\ LimitOf(c) <= maxApprovalLimit[1]) =>
                  (LimitRejected(c) <=> calls[c].op # "get_approvals")

\* C10 witness: with ceilings 20 / 100 the limit 21 has been sent by
\* get_approvals and rejected for get_proposals.
C10_Witness ==
    \E c, d \in CallIds :
        /\ maxProposalLimit = <<20>> /\ maxApprovalLimit = <<100>>
        /\ calls[c].op = "get_approvals" /\ HasLimit(c) /\ LimitOf(c) = 21
        /\ Done(c) /\ calls[c].result[1].state = "resolved" /\ LimitSent(c)
        /\ calls[d].op = "get_proposals" /\ HasLimit(d) /\ LimitOf(d) = 21
        /\ LimitRejectedWith(d, 20)

\* The identifiers each operation requires, and the parameter each is sent as.
RequiredParams(op, a) ==
    CASE op \in {"get_proposal", "get_proposal_history", "get_approvals"} ->
             {<<"proposer", <<"Name", a.proposer>>>>,
              <<"proposal_name", <<"Name", a.proposalName>>>>}
      [] op = "get_activity" -> {<<"account", <<"Name", a.account>>>>}
      [] op = "get_approver_proposals" -> {<<"approver", <<"Name", a.approver>>>>}
      [] op = "search_proposals" -> {<<"query", a.query>>}
      [] OTHER -> {}

\* The value on the wire of option key supplied as v: integers and names in
\* their wire type, anything else as it is.
OnTheWire(key, v) ==
    CASE key \in {"limit", "offset"} -> <<"Int32", v>>
      [] key = "globalseq" -> <<"UInt64", v>>
      [] key = "proposer" -> <<"Name", v>>
      [] OTHER -> v

SuppliedOptions(c) == {k \in OptionKeys : calls[c].options[k] # undefined}

\* C11: the parameter mapping of every operation's request holds exactly the
\* operation's required identifiers and the options the caller supplied: no
\* key for an omitted option, and each supplied option under its own key with
\* the supplied value, false and 0 included.
C11_ExactlySuppliedParams ==
    \A c \in CallIds : \A r \in OwnRequests(c) :
        LET required == RequiredParams(calls[c].op, calls[c].args)
        IN  /\ Keys(r.params) = {kv[1] : kv \in required} \cup SuppliedOptions(c)
            /\ \A kv \in required : r.params[kv[1]] = <<kv[2]>>
            /\ \A k \in SuppliedOptions(c) :
                  r.params[k] = <<OnTheWire(k, calls[c].options[k][1])>>

\* C11 witness: get_approver_proposals was sent with include_approved false
\* and offset 0, and with no key for the status and the limit it was not given.
C11_Witness ==
    \E c \in CallIds : \E r \in OwnRequests(c) :
        /\ calls[c].op = "get_approver_proposals"
        /\ calls[c].options["include_approved"] = <<FALSE>>
        /\ calls[c].options["offset"] = <<0>>
        /\ r.params["include_approved"] = <<FALSE>>
        /\ r.params["offset"] = <<(<<"Int32", 0>>)>>
        /\ Keys(r.params) = {"approver", "include_approved", "offset"}

\* The call ended in a rejection.
RejectedCall(c) == Done(c) /\ calls[c].result[1].state = "rejected"

\* The call ended in a transport error.
TransportFailed(c) ==
    /\ RejectedCall(c)
    /\ \E e \in TransportErrors : calls[c].result[1].value = <<"Error", e>>

\* C12: a supplied offset is never validated.  A call given an offset is
\* rejected by the client only for a limit above its ceiling, any other
\* rejection is the transport's, and the request that goes out carries the
\* offset as supplied (negative, zero or large).
C12_OffsetPassedThrough ==
    \A c \in CallIds :
        (calls[c].options["offset"] # undefined /\ Validated(c)) =>
            /\ LimitRejected(c) =>
                  (HasLimit(c) /\ LimitOf(c) > Ceiling(calls[c].op)[1])
            /\ RejectedCall(c) => (LimitRejected(c) \/ TransportFailed(c))
            /\ ~LimitRejected(c) =>
                  /\ Cardinality(OwnRequests(c)) = 1
                  /\ \A r \in OwnRequests(c) :
                        r.params["offset"] = <<(<<"Int32", calls[c].options["offset"][1]>>)>>

\* C12 witness: a call given the offset -1 has resolved after sending -1.
C12_Witness ==
    \E c \in CallIds : \E r \in OwnRequests(c) :
        /\ calls[c].options["offset"] = <<-1>>
        /\ r.params["offset"] = <<(<<"Int32", -1>>)>>
        /\ Done(c) /\ calls[c].result[1].state = "resolved"

\* The operations that have an endpoint of their own.
EndpointOps ==
    {"get_proposal", "get_proposal_history", "get_proposals", "get_active",
     "get_approvals", "get_activity", "get_approver_proposals", "search_proposals",
     "get_status"}

\* C13: every request a call issues goes to its own operation's path under
\* /v1/proposals/ or is the get_status request of the limit discovery the
\* call ran (at most one, and only for a getter or a call given a limit); a
\* call of an operation with an endpoint has issued exactly one request to
\* its own path once it has passed validation, and none before that or when
\* validation rejected it.
C13_OneRequestToOwnPath ==
    \A c \in CallIds :
        /\ \A r \in RequestsOf(c) :
              \/ calls[c].op \in EndpointOps /\ r.path = "/v1/proposals/" \o calls[c].op
              \/ r \in DiscoveryRequests /\ UsesLimits(c)
        /\ Cardinality(DiscoveryRequestsOf(c)) <= 1
        /\ calls[c].op \in EndpointOps =>
              IF Validated(c) /\ ~LimitRejected(c)
              THEN Cardinality(OwnRequests(c)) = 1
              ELSE OwnRequests(c) = {}

\* C13 witness: a get_proposal_history call given a limit has resolved after
\* two requests, get_status for discovery and its own, while another call's
\* request went to a different path.
C13_Witness ==
    \E c, d \in CallIds :
        /\ calls[c].op = "get_proposal_history" /\ Done(c)
        /\ calls[c].result[1].state = "resolved"
        /\ {r.path : r \in RequestsOf(c)} =
              {"/v1/proposals/get_status", "/v1/proposals/get_proposal_history"}
        /\ Cardinality(RequestsOf(c)) = 2
        /\ calls[d].op = "get_proposal"
        /\ {r.path : r \in RequestsOf(d)} = {"/v1/proposals/get_proposal"}

\* What the transport can answer an operation's own request with.
TransportOutcomes ==
    {[state |-> "resolved", value |-> <<"status", s>>] : s \in StatusResponses}
    \cup {[state |-> "resolved", value |-> <<"response", p>>] : p \in Payloads}
    \cup {[state |-> "rejected", value |-> <<"Error", e>>] : e \in TransportErrors}

\* C14: a call that awaits its operation's own request (a direct get_status
\* included) issues no further request, then or later; the step that ends
\* the wait completes the call with what the transport answered, and when
\* that is a failure the call is rejected with the transport's error as it
\* is, and neither ceiling nor the initialized flag changes in that step.
C14_TransportErrorPropagates ==
    [][\A c \in CallIds :
          /\ calls[c].pc \in {"awaitCall", "done"} =>
                {r \in transport' : r.call = c} = RequestsOf(c)
          /\ (calls[c].pc = "awaitCall" /\ calls'[c] # calls[c]) =>
                /\ calls'[c].pc = "done"
                /\ calls'[c].result[1] \in TransportOutcomes
                /\ calls'[c].result[1].state = "rejected" =>
                      /\ maxProposalLimit' = maxProposalLimit
                      /\ maxApprovalLimit' = maxApprovalLimit
                      /\ limitsInitialized' = limitsInitialized]_vars

\* C14 witness: a direct get_status call and a get_proposals call have both
\* been rejected with the transport's error after one request each, and the
\* client is still uninitialized with no ceiling.
C14_Witness ==
    \E c, d \in CallIds :
        /\ calls[c].op = "get_status" /\ calls[d].op = "get_proposals"
        /\ calls[c].result = <<[state |-> "rejected", value |-> <<"Error", "Network error">>]>>
        /\ calls[d].result = <<[state |-> "rejected", value |-> <<"Error", "Network error">>]>>
        /\ Cardinality(RequestsOf(c)) = 1 /\ Cardinality(RequestsOf(d)) = 1
        /\ ~limitsInitialized
        /\ maxProposalLimit = undefined /\ maxApprovalLimit = undefined

\* C15: a debug_proposal(proposer, proposalName, options?) call sends one
\* request, to a path of its own, whose parameters are proposer,
\* proposal_name and globalseq exactly when supplied; it runs no limit
\* discovery and no limit validation, and completes with what the transport
\* answered.
C15_DebugProposal ==
    \A c \in CallIds :
        (calls[c].op = "debug_proposal" /\ Done(c)) =>
            /\ Cardinality(RequestsOf(c)) = 1
            /\ \A r \in RequestsOf(c) :
                  /\ r.path \notin {"/v1/proposals/" \o op : op \in EndpointOps}
                  /\ Keys(r.params) = {"proposer", "proposal_name"} \cup SuppliedOptions(c)
                  /\ r.params["proposer"] = <<(<<"Name", calls[c].args.proposer>>)>>
                  /\ r.params["proposal_name"] = <<(<<"Name", calls[c].args.proposalName>>)>>
                  /\ calls[c].options["globalseq"] # undefined =>
                        r.params["globalseq"] =
                            <<(<<"UInt64", calls[c].options["globalseq"][1]>>)>>
            /\ calls[c].discovery = "none"
            /\ calls[c].result[1] \in TransportOutcomes

\* C16: get_proposals(p, options) sends proposer = p and the options of its
\* second argument, and a limit in the second argument is validated against
\* the proposal ceiling: above it the call is rejected with
\* `Limit cannot exceed <ceiling>`.
C16_PositionalProposer ==
    \A c \in CallIds :
        (calls[c].op = "get_proposals" /\ calls[c].second # undefined /\ Done(c)) =>
            LET second == calls[c].second[1]
                supplied == {k \in OptionKeys : second[k] # undefined}
            IN  /\ \A r \in OwnRequests(c) :
                      /\ Keys(r.params) = {"proposer"} \cup supplied
                      /\ r.params["proposer"] = <<(<<"Name", calls[c].args.proposer>>)>>
                      /\ \A k \in supplied : r.params[k] = <<OnTheWire(k, second[k][1])>>
                /\ second["limit"] # undefined =>
                      /\ maxProposalLimit # undefined
                      /\ IF second["limit"][1] > maxProposalLimit[1]
                         THEN LimitRejectedWith(c, maxProposalLimit[1])
                         ELSE ~LimitRejected(c) /\ Cardinality(OwnRequests(c)) = 1

\* The client holds the default ceilings, proposals 20 and approvals 100.
DefaultCeilings == maxProposalLimit = <<20>> /\ maxApprovalLimit = <<100>>

Paginated(offset, limit, total, more) ==
    /\ pagination # undefined
    /\ pagination[1].offset = offset /\ pagination[1].limit = limit
    /\ pagination[1].total = total /\ pagination[1].more = more

\* C18: for offset >= 0, limit > 0 and total >= 0, currentPage is
\* floor(offset / limit) + 1, the one page p >= 1 with
\* (p - 1) * limit <= offset < p * limit, and totalPages is
\* ceil(total / limit), the one count t >= 0 with
\* (t - 1) * limit < total <= t * limit; a total of 0 gives 0 pages.
C18_PageNumbers ==
    pagination # undefined =>
        LET p == pagination[1]
        IN  (p.offset >= 0 /\ p.limit > 0 /\ p.total >= 0) =>
                /\ p.info.currentPage >= 1
                /\ (p.info.currentPage - 1) * p.limit <= p.offset
                /\ p.offset < p.info.currentPage * p.limit
                /\ p.info.totalPages >= 0
                /\ (p.info.totalPages - 1) * p.limit < p.total
                /\ p.total <= p.info.totalPages * p.limit
                /\ p.total = 0 => p.info.totalPages = 0

\* C18 witness: offset 5, limit 2, total 7 gave page 3 of 4 (neither
\* division is exact).
C18_Witness ==
    /\ \E more \in BOOLEAN : Paginated(5, 2, 7, more)
    /\ pagination[1].info.currentPage = 3
    /\ pagination[1].info.totalPages = 4

\* C19: hasPrevious is true exactly when offset > 0; previousOffset is
\* present exactly when offset > 0, and is then offset - limit when that is
\* positive and 0 otherwise, so never negative.
C19_PreviousOffset ==
    pagination # undefined =>
        LET p == pagination[1]
        IN  IF p.offset > 0
            THEN /\ p.info.hasPrevious = TRUE
                 /\ p.info.previousOffset # undefined
                 /\ p.info.previousOffset[1] >= 0
                 /\ p.info.previousOffset[1] =
                       (IF p.offset > p.limit THEN p.offset - p.limit ELSE 0)
            ELSE /\ p.info.hasPrevious = FALSE
                 /\ p.info.previousOffset = undefined

\* C19 witness: offset 2 with limit 3 gave hasPrevious and previousOffset 0.
C19_Witness ==
    /\ \E total \in Totals, more \in BOOLEAN : Paginated(2, 3, total, more)
    /\ pagination[1].info.hasPrevious
    /\ pagination[1].info.previousOffset = <<0>>

\* C20: hasMore is the `more` argument whatever offset, limit and total
\* are; nextOffset is present exactly when more is true, and is then
\* offset + limit.
C20_MorePassedThrough ==
    pagination # undefined =>
        LET p == pagination[1]
        IN  /\ p.info.hasMore = p.more
            /\ IF p.more
               THEN p.info.nextOffset = <<p.offset + p.limit>>
               ELSE p.info.nextOffset = undefined

\* C20 witness: more was true although offset + limit reached the total
\* (4 + 3 >= 5), and hasMore is true with nextOffset 7.
C20_Witness ==
    /\ Paginated(4, 3, 5, TRUE)
    /\ pagination[1].info.hasMore
    /\ pagination[1].info.nextOffset = <<7>>

\* The call's discovery issued a status call and that call has completed.
DiscoveryCompleted(c) == DiscoveryRequestsOf(c) # {} /\ calls[c].discovery # "none"

\* What call c has seen of the ceilings is what the client holds now: a
\* getter's result is the current ceiling, a rejection names the current
\* ceiling of the operation, and an accepted limit is within it.
ObservesCurrentCeilings(c) ==
    /\ (calls[c].op = "getMaxProposalLimit" /\ Done(c)) =>
          /\ maxProposalLimit # undefined
          /\ Returned(c, "getMaxProposalLimit", maxProposalLimit[1])
    /\ (calls[c].op = "getMaxApprovalLimit" /\ Done(c)) =>
          /\ maxApprovalLimit # undefined
          /\ Returned(c, "getMaxApprovalLimit", maxApprovalLimit[1])
    /\ (HasLimit(c) /\ Validated(c)) =>
          LET ceiling == IF calls[c].op = "get_approvals" THEN maxApprovalLimit
                         ELSE maxProposalLimit
          IN  /\ ceiling # undefined
              /\ IF LimitOf(c) > ceiling[1]
                 THEN LimitRejectedWith(c, ceiling[1])
                 ELSE ~LimitRejected(c)

\* C21: on a client constructed without ceilings, a call that waits in
\* discovery has issued its own status call, also while another call's is in
\* flight; once two calls' status calls have both completed, the client is
\* initialized with both ceilings set, and what either call and any other
\* call has observed of the ceilings is the one pair the client holds,
\* whatever the two status calls returned.
C21_ConcurrentDiscoveriesAgree ==
    NoneSupplied =>
        /\ \A c \in CallIds :
              calls[c].pc = "awaitStatus" => Cardinality(DiscoveryRequestsOf(c)) = 1
        /\ \A c, d \in CallIds :
              (c # d /\ DiscoveryCompleted(c) /\ DiscoveryCompleted(d)) =>
                  /\ limitsInitialized
                  /\ maxProposalLimit # undefined /\ maxApprovalLimit # undefined
                  /\ \A e \in CallIds : ObservesCurrentCeilings(e)

\* C21 witness: two getMaxProposalLimit() calls each issued a status call;
\* one got a response, the other's failed, and both have returned 30.
C21_Witness ==
    \E c, d \in CallIds :
        /\ NoneSupplied
        /\ Cardinality(DiscoveryRequestsOf(c)) = 1 /\ Cardinality(DiscoveryRequestsOf(d)) = 1
        /\ calls[c].discovery = "resolved" /\ calls[d].discovery = "rejected"
        /\ Returned(c, "getMaxProposalLimit", 30)
        /\ Returned(d, "getMaxProposalLimit", 30)

\* C22: an operation given a limit whose discovery status call failed is not
\* failed by that: it goes on to validation with both ceilings set (20 and
\* 100 for a ceiling that was not supplied, unless another call's status
\* response filled it first); a limit above the ceiling is rejected with the
\* limit error, any other limit is sent in the operation's own request, and
\* the call ends with what the transport answered to that request.
C22_DiscoveryFailureAbsorbed ==
    \A c \in CallIds :
        (HasLimit(c) /\ calls[c].discovery = "rejected") =>
            /\ calls[c].pc \in {"resume", "awaitCall", "done"}
            /\ limitsInitialized
            /\ maxProposalLimit # undefined /\ maxApprovalLimit # undefined
            /\ (\A d \in CallIds : calls[d].discovery # "resolved") =>
                  /\ options.maxProposalLimit = undefined => maxProposalLimit = <<20>>
                  /\ options.maxApprovalLimit = undefined => maxApprovalLimit = <<100>>
            /\ Validated(c) =>
                  LET ceiling == IF calls[c].op = "get_approvals" THEN maxApprovalLimit
                                 ELSE maxProposalLimit
                  IN  IF LimitOf(c) > ceiling[1]
                      THEN LimitRejectedWith(c, ceiling[1]) /\ OwnRequests(c) = {}
                      ELSE /\ LimitSent(c)
                           /\ Done(c) => calls[c].result[1] \in TransportOutcomes

\* C22 witness: get_activity with the limit 20 ran a discovery whose status
\* call failed, was validated against the default 20, sent its request with
\* that limit and returned the response.
C22_Witness ==
    \E c \in CallIds :
        /\ NoneSupplied
        /\ calls[c].op = "get_activity" /\ HasLimit(c) /\ LimitOf(c) = 20
        /\ calls[c].discovery = "rejected"
        /\ maxProposalLimit = <<20>> /\ maxApprovalLimit = <<100>>
        /\ LimitSent(c)
        /\ calls[c].result = <<[state |-> "resolved", value |-> <<"response", "payload">>]>>

\* Exactly one of the two ceilings was supplied at construction.
OneSupplied == (options.maxProposalLimit = undefined) # (options.maxApprovalLimit = undefined)

\* C23: on a client constructed with exactly one ceiling, the first call
\* that runs discovery (a getter or an operation given a limit, whichever
\* ceiling it uses) issues a get_status call; the supplied ceiling keeps its
\* value throughout, and the other ceiling is unknown until a discovery has
\* completed and set from then on.
C23_OneSuppliedStillDiscovers ==
    OneSupplied =>
        /\ \A c \in CallIds :
              (UsesLimits(c) /\ \A d \in CallIds : d < c => ~UsesLimits(d)) =>
                  Cardinality(DiscoveryRequestsOf(c)) = 1
        /\ options.maxProposalLimit # undefined =>
              /\ maxProposalLimit = options.maxProposalLimit
              /\ (maxApprovalLimit # undefined) <=>
                    (\E c \in CallIds : calls[c].discovery # "none")
        /\ options.maxApprovalLimit # undefined =>
              /\ maxApprovalLimit = options.maxApprovalLimit
              /\ (maxProposalLimit # undefined) <=>
                    (\E c \in CallIds : calls[c].discovery # "none")

\* C23 witness: constructed with maxProposalLimit 50 only; a get_proposals
\* call with a limit, which uses the supplied ceiling alone, issued the
\* get_status call, whose response filled the approval ceiling with 21 and
\* left the proposal ceiling at 50.
C23_Witness ==
    \E c \in CallIds :
        /\ options = [maxProposalLimit |-> <<50>>, maxApprovalLimit |-> undefined]
        /\ calls[c].op = "get_proposals" /\ HasLimit(c)
        /\ Cardinality(DiscoveryRequestsOf(c)) = 1
        /\ calls[c].discovery = "resolved"
        /\ maxProposalLimit = <<50>> /\ maxApprovalLimit = <<21>>

\* Call c takes a step.
Steps(c) == calls'[c] # calls[c]

\* The call that steps is one made without discovery: not a getter and
\* without a limit option.
StepsWithoutLimit(c) ==
    /\ Steps(c)
    /\ calls'[c].op \notin Getters
    /\ calls'[c].options["limit"] = undefined

\* C24: no step of an operation called without a limit (get_proposal, a
\* direct get_status(), a list operation with any other options) issues a
\* discovery status call or changes a ceiling or the initialized flag, the
\* step that returns a direct get_status() response included; a step that
\* does change one of them is a step of a getter's or a limit-carrying
\* call's discovery.
C24_OnlyDiscoveryChangesState ==
    [][/\ \A c \in CallIds :
            StepsWithoutLimit(c) =>
                /\ DiscoveryRequests' = DiscoveryRequests
                /\ maxProposalLimit' = maxProposalLimit
                /\ maxApprovalLimit' = maxApprovalLimit
                /\ limitsInitialized' = limitsInitialized
       /\ (\/ maxProposalLimit' # maxProposalLimit
           \/ maxApprovalLimit' # maxApprovalLimit
           \/ limitsInitialized' # limitsInitialized) =>
                \E c \in CallIds :
                    /\ Steps(c)
                    /\ calls'[c].op \in Getters \/ calls'[c].options["limit"] # undefined
                    /\ calls[c].pc \in {"idle", "awaitStatus"}
      ]_vars

\* C24 witness: a direct get_status() has returned a response that reports
\* 30 / 21, and the client is still uninitialized with no ceiling and no
\* discovery request.
C24_Witness ==
    \E c \in CallIds :
        /\ calls[c].op = "get_status"
        /\ calls[c].result =
              <<[state |-> "resolved",
                 value |-> <<"status", [max_proposal_results |-> <<30>>,
                                        max_approval_results |-> <<21>>]>>]>>
        /\ ~limitsInitialized
        /\ maxProposalLimit = undefined /\ maxApprovalLimit = undefined
        /\ DiscoveryRequests = {}

\* C25: a call made after a call whose discovery status call failed issues
\* no discovery status call, whatever it is; on a client constructed without
\* ceilings on which no status call succeeded the ceilings then stay 20 and
\* 100: the later call's getter returns them, and its limit is rejected
\* against them or sent.
C25_NoRetryAfterFailedDiscovery ==
    \A d, c \in CallIds :
        (calls[d].discovery = "rejected" /\ d \in calls[c].after) =>
            /\ limitsInitialized
            /\ DiscoveryRequestsOf(c) = {}
            /\ (NoneSupplied /\ \A e \in CallIds : calls[e].discovery # "resolved") =>
                  /\ maxProposalLimit = <<20>> /\ maxApprovalLimit = <<100>>
                  /\ (calls[c].op = "getMaxProposalLimit" /\ Done(c)) =>
                        Returned(c, "getMaxProposalLimit", 20)
                  /\ (calls[c].op = "getMaxApprovalLimit" /\ Done(c)) =>
                        Returned(c, "getMaxApprovalLimit", 100)
                  /\ (HasLimit(c) /\ Validated(c)) =>
                        LET default == IF calls[c].op = "get_approvals" THEN 100 ELSE 20
                        IN  IF LimitOf(c) > default
                            THEN LimitRejectedWith(c, default) /\ RequestsOf(c) = {}
                            ELSE LimitSent(c) /\ Cardinality(RequestsOf(c)) = 1

\* C25 witness: the first call's status call failed; a later get_approvals
\* call with the limit 101 was rejected against the default 100 without any
\* request, so the only status call is the failed one.
C25_Witness ==
    \E d, c \in CallIds :
        /\ NoneSupplied
        /\ calls[d].discovery = "rejected" /\ d \in calls[c].after
        /\ calls[c].op = "get_approvals" /\ HasLimit(c) /\ LimitOf(c) = 101
        /\ LimitRejectedWith(c, 100)
        /\ RequestsOf(c) = {}
        /\ Cardinality(DiscoveryRequests) = 1

\* The pair of ceilings one status response gives a client without ceilings.
CeilingsFrom(status) ==
    <<IF status.max_proposal_results \in {undefined, <<0>>} THEN <<20>>
      ELSE status.max_proposal_results,
      IF status.max_approval_results \in {undefined, <<0>>} THEN <<100>>
      ELSE status.max_approval_results>>

\* C26: on a client constructed with neither ceiling the two ceilings are
\* both unknown or both set in every state, and they are set in one step,
\* from unknown, by one discovery: to the pair its status response gives, or
\* to 20 and 100 when its status call failed.  No other step changes either
\* ceiling, so the pair never mixes two outcomes.
C26_CeilingsFromOneOutcome ==
    [][NoneSupplied =>
          /\ (maxProposalLimit' = undefined) <=> (maxApprovalLimit' = undefined)
          /\ (maxProposalLimit' # maxProposalLimit \/ maxApprovalLimit' # maxApprovalLimit) =>
                /\ maxProposalLimit = undefined /\ maxApprovalLimit = undefined
                /\ \E c \in CallIds :
                      /\ calls[c].pc = "awaitStatus" /\ Steps(c)
                      /\ <<maxProposalLimit', maxApprovalLimit'>> =
                            IF calls'[c].status # undefined
                            THEN CeilingsFrom(calls'[c].status[1])
                            ELSE <<(<<20>>), (<<100>>)>>
      ]_vars

\* C26 witness: two discoveries ran concurrently and got a response and a
\* failure; the ceilings are 30 / 21, the pair of the response.
C26_Witness ==
    \E c, d \in CallIds :
        /\ NoneSupplied
        /\ Cardinality(DiscoveryRequestsOf(c)) = 1 /\ Cardinality(DiscoveryRequestsOf(d)) = 1
        /\ calls[c].discovery = "resolved" /\ calls[d].discovery = "rejected"
        /\ Done(c) /\ Done(d)
        /\ maxProposalLimit = <<30>> /\ maxApprovalLimit = <<21>>

\* C27: a status response that reports 0 for a ceiling the client does not
\* know resolves that ceiling to its default, 20 for max_proposal_results and
\* 100 for max_approval_results, as a response without the field does; a
\* ceiling that was not supplied at construction is never 0.
C27_ZeroIsNotACeiling ==
    [][/\ \A c \in CallIds :
            StatusArrives(c) =>
                LET status == calls'[c].status[1]
                IN  /\ (maxProposalLimit = undefined
                          /\ status.max_proposal_results \in {<<0>>, undefined}) =>
                        maxProposalLimit' = <<20>>
                    /\ (maxApprovalLimit = undefined
                          /\ status.max_approval_results \in {<<0>>, undefined}) =>
                        maxApprovalLimit' = <<100>>
       /\ options.maxProposalLimit = undefined => maxProposalLimit' # <<0>>
       /\ options.maxApprovalLimit = undefined => maxApprovalLimit' # <<0>>
      ]_vars

\* C27 witness: the discovery of a getMaxProposalLimit() call received a
\* response reporting 0 / 0 and resolved the ceilings to 20 / 100.
C27_Witness ==
    \E c \in CallIds :
        /\ NoneSupplied
        /\ calls[c].op = "getMaxProposalLimit"
        /\ calls[c].status =
              <<[max_proposal_results |-> <<0>>, max_approval_results |-> <<0>>]>>
        /\ Cardinality(DiscoveryRequests) = 1
        /\ maxProposalLimit = <<20>> /\ maxApprovalLimit = <<100>>

\* C28: validation bounds a limit from above only.  For every limit-taking
\* operation a limit of 0 or below is not rejected by the client: the
\* operation's request goes out with that limit as its limit parameter, and
\* the call can fail only with the transport's error.
C28_NoLowerBound ==
    \A c \in CallIds :
        (HasLimit(c) /\ LimitOf(c) <= 0 /\ Validated(c)) =>
            /\ ~LimitRejected(c)
            /\ LimitSent(c)
            /\ RejectedCall(c) => TransportFailed(c)

\* C28 witness: get_approvals with the limit -1 has sent limit -1 and
\* returned the response.
C28_Witness ==
    \E c \in CallIds :
        /\ calls[c].op = "get_approvals" /\ HasLimit(c) /\ LimitOf(c) = -1
        /\ \E r \in OwnRequests(c) : r.params["limit"] = <<(<<"Int32", -1>>)>>
        /\ Done(c) /\ calls[c].result[1].state = "resolved"

\* C29: navigating from a page at offset >= 0 to its nextOffset gives a page
\* whose previousOffset is that offset and whose currentPage is one more;
\* navigating from a page at offset >= limit to its previousOffset gives a
\* page whose currentPage is one less.
C29_NavigationRoundTrips ==
    (pagination # undefined /\ pagination[1].from # undefined) =>
        LET p == pagination[1]
            from == p.from[1]
        IN  /\ (from.to = "next" /\ from.offset >= 0) =>
                  /\ p.info.previousOffset = <<from.offset>>
                  /\ p.info.currentPage = from.info.currentPage + 1
            /\ (from.to = "previous" /\ from.offset >= p.limit) =>
                  p.info.currentPage = from.info.currentPage - 1

\* C29 witness: from offset 5 with limit 2 (page 3) the caller went to
\* nextOffset 7 and got page 4 with previousOffset 5.
C29_Witness ==
    /\ pagination # undefined
    /\ pagination[1].from # undefined
    /\ pagination[1].from[1].to = "next"
    /\ pagination[1].from[1].offset = 5 /\ pagination[1].limit = 2
    /\ pagination[1].from[1].info.currentPage = 3
    /\ pagination[1].offset = 7
    /\ pagination[1].info.currentPage = 4
    /\ pagination[1].info.previousOffset = <<5>>

\* C30: for limit > 0, total > 0 and 0 <= offset < total the current page
\* lies between 1 and totalPages, and it is the last page exactly when the
\* offset has reached the start of the last page, (totalPages - 1) * limit.
C30_CurrentPageWithinTotal ==
    pagination # undefined =>
        LET p == pagination[1]
        IN  (p.limit > 0 /\ p.total > 0 /\ 0 <= p.offset /\ p.offset < p.total) =>
                /\ 1 <= p.info.currentPage
                /\ p.info.currentPage <= p.info.totalPages
                /\ (p.info.currentPage = p.info.totalPages) <=>
                      (p.offset >= (p.info.totalPages - 1) * p.limit)

\* C30 witness: offset 4, limit 2, total 5 is page 3 of 3, the last page.
C30_Witness ==
    /\ \E more \in BOOLEAN : Paginated(4, 2, 5, more)
    /\ pagination[1].info.currentPage = 3
    /\ pagination[1].info.totalPages = 3

====
